---- MODULE Spec2Model ----
(***************************************************************************)
(* Squamish-Weatherman: the two report scripts                            *)
(*   variant 1 = src/fetch_hrdps_squamish_insecure.py                      *)
(*   variant 2 = src/fetch_hrdps_squamish_insecure2.py                     *)
(* modelled as one state machine (main and the functions it calls), plus  *)
(* three specifications that exercise the pure parts on bounded inputs:   *)
(* the thermal-sequence emphasis, the marine-text phrase emphasis and the *)
(* nearest-cell grid sampling.                                            *)
(*                                                                         *)
(* Time is counted in whole hours since 00:00 UTC of day 0 of the model's *)
(* calendar.  Temperatures and coordinates are integers (tenths of a     *)
(* degree, grid units); only their order and their squared distances      *)
(* matter to the code modelled here.                                      *)
(***************************************************************************)
EXTENDS Integers, Sequences, FiniteSets, TLC

VARIABLES
    variant,        \* which script runs: 1 or 2
    pc,             \* position of main
    argStart,       \* args.start
    argEnd,         \* args.end
    argStep,        \* args.step
    argRun,         \* args.run parsed (NoRun when --run is absent)
    now,            \* datetime.now(utc) as seen by find_best_run
    run_dt,         \* the selected model run
    probes,         \* number of requests.head probes sent
    probeResult,    \* "none" | "200" | "other" | "error"
    marineOutcome,  \* what the marine feed did: "none" before the fetch
    fh,             \* the loop variable of main's per-hour loop
    last_date,      \* last_date of main
    uf, vf, tf,     \* main's local names for the three temporary files
    got,            \* results of the downloads of the tuple being built (variant 2)
    files,          \* temporary files that exist on disk
    nextFile,       \* source of fresh temporary file names
    pending,        \* the exception in flight while the finally block runs
    error,          \* the exception that left main ("none" while it runs)
    failedFh,       \* forecast hour whose download raised (NoHour if none)
    fetched,        \* forecast hours for which download() was called
    ts,             \* emphasis wrapped around the time label ts of the current row
    out,            \* the lines printed so far
    thermal,        \* state of the thermal-emphasis specification
    marine,         \* state of the marine-text specification
    grid            \* state of the grid-sampling specification

vars == << variant, pc, argStart, argEnd, argStep, argRun, now, run_dt, probes,
           probeResult, marineOutcome, fh, last_date, uf, vf, tf, got, files,
           nextFile, pending, error, failedFh, fetched, ts, out,
           thermal, marine, grid >>

mainVars == << variant, pc, argStart, argEnd, argStep, argRun, now, run_dt, probes,
               probeResult, marineOutcome, fh, last_date, uf, vf, tf, got, files,
               nextFile, pending, error, failedFh, fetched, ts, out >>

(***************************************************************************)
(* Bounds of the model and constants of the program                       *)
(***************************************************************************)
\* argparse defaults of --start, --end, --step
DefaultStart == 0
DefaultEnd == 48
DefaultStep == 3
\* the local-time window of the table
FirstLocalHour == 5
LastLocalHour == 20
\* hours between two model cycles
CycleHours == 12

\* the other --start and --end values tried
MaxStart == 30
AltEnd == 6
\* find_best_run is tried on days 1..MaxNowDay
MaxNowDay == 2

NoRun == 0 - 1
NoDate == 0 - 1
NoHour == 0 - 1000
Unbound == 0 - 1

StartSet == {DefaultStart, MaxStart}
EndSet == {AltEnd, DefaultEnd}
StepSet == {0 - DefaultStep, 0, DefaultStep}
NowSet == {d * 24 + h : d \in 1..MaxNowDay, h \in {0, 11, 12, 23}}
\* --run 12Z of day 1, and 06Z of day 2 (the hour is not validated)
RunArgSet == {1 * 24 + 12, 2 * 24 + 6}

(***************************************************************************)
(* America/Vancouver: PST (UTC-8) outside, PDT (UTC-7) inside daylight    *)
(* time.  The model's calendar puts the spring transition (10:00 UTC) on  *)
(* day 2 and the autumn transition (09:00 UTC) on day 4, so that forecast *)
(* windows cross both.                                                    *)
(***************************************************************************)
DstStartUtc == 2 * 24 + 10
DstEndUtc == 4 * 24 + 9

UtcOffset(t) == IF t >= DstStartUtc /\ t < DstEndUtc THEN 0 - 7 ELSE 0 - 8

\* valid_utc.astimezone(LOCAL_TZ)
LocalTime(t) == t + UtcOffset(t)
\* loc.hour
LocalHour(t) == LocalTime(t) % 24
\* loc.date()
LocalDate(t) == LocalTime(t) \div 24

\* valid_utc = run_dt + timedelta(hours=fh)
ValidUtc(run, h) == run + h

(***************************************************************************)
(* Printed lines                                                          *)
(***************************************************************************)
Line(k, h, d, hr, txt) == [k |-> k, fh |-> h, date |-> d, hr |-> hr, text |-> txt]
Plain(k) == Line(k, NoHour, NoDate, 0 - 1, << >>)

(***************************************************************************)
(* Thermal-sequence emphasis of the time label (main, after extraction)   *)
(***************************************************************************)
\* positions of the points of interest in LOCS
Furry == 1
Brit == 2
SevenMesh == 3
Cheak == 4
Whis == 5
Pemb == 6
Lill == 7
NumLocs == 7

\* StrictlyAscending with a fault: <= where the code has <
AscendingOrEqual(s) == \A i \in 1..(Len(s) - 1) : s[i] <= s[i + 1]

\* all(s[i] < s[i+1] for i in range(len(s)-1))
StrictlyAscending(s) == \A i \in 1..(Len(s) - 1) : s[i] < s[i + 1]

\* part = [temps['Furry'], temps['Brit'], temps['7mesh'], temps['Whis']]
PartialSeq(temps) == << temps[Furry], temps[Brit], temps[SevenMesh], temps[Whis] >>

\* TimeEmphasis with a fault: the partial rule tried before the full one
TimeEmphasisPartialFirst(v, temps) ==
    IF StrictlyAscending(PartialSeq(temps)) THEN "yellow"
    ELSE IF v = 2 /\ StrictlyAscending(temps) THEN "green"
    ELSE "none"

\* variant 2: green if the whole list ascends, else yellow if the four-point
\* list ascends; variant 1 knows the yellow rule only
TimeEmphasis(v, temps) ==
    IF v = 2
    THEN IF StrictlyAscending(temps) THEN "green"
         ELSE IF StrictlyAscending(PartialSeq(temps)) THEN "yellow"
         ELSE "none"
    ELSE IF StrictlyAscending(PartialSeq(temps)) THEN "yellow"
         ELSE "none"

(***************************************************************************)
(* Marine-text phrase emphasis (display_marine_forecasts).  A text is a   *)
(* sequence of tokens: "WARN" is the literal STRONG WIND WARNING IN       *)
(* EFFECT, "inflow"/"INFLOW" and "outflow" the words in two spellings of  *)
(* case, "north" and "south" the phrases northern sections and southern   *)
(* sections, "x" any other word, "nl" a line break.  "RED", "GREEN",      *)
(* "BLUE" and "RESET" are the escape sequences.                           *)
(***************************************************************************)
Tokens == {"WARN", "inflow", "INFLOW", "north", "outflow", "south", "x", "nl"}
OpenMarkers == {"RED", "GREEN", "BLUE"}
Markers == OpenMarkers \cup {"RESET"}
InflowWords == {"inflow", "INFLOW"}
OutflowWords == {"outflow"}

RECURSIVE ReplaceWarning(_)
\* text.replace(literal, H_RED + literal + H_RESET): every occurrence
ReplaceWarning(t) ==
    IF t = << >> THEN << >>
    ELSE (IF Head(t) = "WARN" THEN << "RED", "WARN", "RESET" >> ELSE << Head(t) >>)
         \o ReplaceWarning(Tail(t))

\* end of the shortest match of  start.*?stop  that begins at i: the first
\* stop after i with no line break in between ('.' does not match one); 0
\* when the pattern does not match at i
MatchEnd(t, i, stop) ==
    LET ends == {j \in (i + 1)..Len(t) :
                    /\ t[j] = stop
                    /\ \A k \in (i + 1)..(j - 1) : t[k] # "nl"}
    IN IF ends = {} THEN 0 ELSE CHOOSE j \in ends : \A k \in ends : j <= k

RECURSIVE SubFrom(_, _, _, _, _)
\* re.sub, scanning from i: leftmost non-overlapping matches, each wrapped
SubFrom(t, i, starts, stop, mark) ==
    IF i > Len(t) THEN << >>
    ELSE IF t[i] \in starts /\ MatchEnd(t, i, stop) # 0
         THEN << mark >> \o SubSeq(t, i, MatchEnd(t, i, stop)) \o << "RESET" >>
              \o SubFrom(t, MatchEnd(t, i, stop) + 1, starts, stop, mark)
         ELSE << t[i] >> \o SubFrom(t, i + 1, starts, stop, mark)

\* re.sub(r"(start.*?stop)", lambda m: mark + m.group(1) + H_RESET, t, IGNORECASE)
SubPattern(t, starts, stop, mark) == SubFrom(t, 1, starts, stop, mark)

\* the three rules applied one after another to the result of the previous
HighlightText(t) ==
    SubPattern(SubPattern(ReplaceWarning(t), InflowWords, "north", "GREEN"),
               OutflowWords, "south", "BLUE")

(***************************************************************************)
(* Nearest-cell sampling (extract_temps, extract_wind).  An array is a    *)
(* function  [0..nrows-1 -> [0..ncols-1 -> Int]].                          *)
(***************************************************************************)
\* 273.15 K in hundredths of a kelvin
KelvinOffset == 27315

\* LOCS in grid units, in the order of the list; SQUAMISH is the 7mesh point
GridLocs == << <<0, 0>>, <<0, 1>>, <<1, 1>>, <<1, 0>>, <<2, 1>>, <<2, 2>>, <<3, 3>> >>
SquamishPoint == GridLocs[SevenMesh]

\* d2 = (lats - lat0)**2 + (lons - lon0)**2
Dist2(lats, lons, p) ==
    [iy \in DOMAIN lats |->
        [ix \in DOMAIN lats[iy] |->
            (lats[iy][ix] - p[1]) * (lats[iy][ix] - p[1])
            + (lons[iy][ix] - p[2]) * (lons[iy][ix] - p[2])]]

\* the array read in C order, as a sequence
Flatten(a, nrows, ncols) ==
    [k \in 1..(nrows * ncols) |-> a[(k - 1) \div ncols][(k - 1) % ncols]]

RECURSIVE ArgMinLastFrom(_, _, _)
ArgMinLastFrom(d, i, best) ==
    IF i > Len(d) THEN best
    ELSE ArgMinLastFrom(d, i + 1, IF d[i] <= d[best] THEN i ELSE best)

\* ArgMin with a fault: the last minimum instead of the first
ArgMinLast(d) == ArgMinLastFrom(d, 2, 1) - 1

RECURSIVE ArgMinFrom(_, _, _)
ArgMinFrom(d, i, best) ==
    IF i > Len(d) THEN best
    ELSE ArgMinFrom(d, i + 1, IF d[i] < d[best] THEN i ELSE best)

\* ndarray.argmin() of the flattened array: index (from 0) of the first minimum
ArgMin(d) == ArgMinFrom(d, 2, 1) - 1

\* np.unravel_index(idx, shape) for a 2-D C-ordered shape
UnravelIndex(idx, nrows, ncols) == << idx \div ncols, idx % ncols >>

\* iy, ix = np.unravel_index(d2.argmin(), d2.shape)
NearestIndex(lats, lons, p, nrows, ncols) ==
    UnravelIndex(ArgMin(Flatten(Dist2(lats, lons, p), nrows, ncols)), nrows, ncols)

\* extract_temps: temps[label] = vals[iy, ix] - 273.15 for every point of LOCS
ExtractTemps(g) ==
    [l \in 1..NumLocs |->
        LET at == NearestIndex(g.lats, g.lons, GridLocs[l], g.nrows, g.ncols)
        IN g.vals[at[1]][at[2]] - KelvinOffset]

\* extract_wind: the index found on the U field's grid reads both fields
ExtractWind(g) ==
    LET at == NearestIndex(g.lats, g.lons, SquamishPoint, g.nrows, g.ncols)
    IN << g.vals[at[1]][at[2]], g.vvals[at[1]][at[2]] >>

(***************************************************************************)
(* main and the functions it calls                                        *)
(***************************************************************************)
\* what the marine feed can do to requests.get / raise_for_status / the parse
MarineOutcomes == {"entries", "empty", "transport_error", "bad_status",
                   "malformed_xml", "missing_field", "no_answer"}
MarineFailures == {"transport_error", "bad_status", "malformed_xml", "missing_field"}
\* forecast texts of a feed that answers with a Howe Sound entry
MarineSamples == { << "WARN", "x", "INFLOW", "x", "north" >>,
                   << "x", "outflow", "south" >> }
\* what a gridded-field server can do to download()
DownloadOutcomes == {"ok", "status", "transport", "midstream"}
ExtractOutcomes == {"ok", "wind_error", "temps_error"}
\* the temperatures extract_temps hands to main: ascending throughout,
\* ascending on the four-point list only, not ascending
ThermalSamples == { << 1, 2, 3, 4, 5, 6, 7 >>,
                    << 1, 2, 3, 3, 5, 4, 4 >>,
                    << 2, 2, 1, 3, 0, 4, 4 >> }

\* get_marine_forecast: every Exception is caught and yields []
GetMarineForecast(o, text) ==
    IF o = "entries" THEN << text >> ELSE << >>

\* display_marine_forecasts, for an outcome of the feed that returns
MarineLines(o, text) ==
    LET entries == GetMarineForecast(o, text)
    IN << Plain("marine_banner") >>
       \o (IF o \in MarineFailures THEN << Plain("marine_error") >> ELSE << >>)
       \o (IF entries = << >>
           THEN << Plain("marine_none") >>
           ELSE << Line("marine_entry", NoHour, NoDate, 0 - 1,
                        HighlightText(entries[1])) >>)

\* requests.get(rss_url) carries no timeout: a feed that never answers
\* keeps display_marine_forecasts inside the call
DisplayMarine ==
    /\ pc = "marine"
    /\ \E o \in MarineOutcomes, text \in MarineSamples :
          /\ o = "entries" \/ text = CHOOSE x \in MarineSamples : TRUE
          /\ marineOutcome' = o
          /\ IF o = "no_answer"
             THEN /\ pc' = "marine_blocked"
                  /\ out' = out \o << Plain("marine_banner") >>
             ELSE /\ pc' = "select_run"
                  /\ out' = out \o MarineLines(o, text)
    /\ UNCHANGED << variant, argStart, argEnd, argStep, argRun, now, run_dt, probes,
                    probeResult, fh, last_date, uf, vf, tf, got, files, nextFile,
                    pending, error, failedFh, fetched, ts, thermal, marine, grid >>

\* CandidateRun with a fault: > where the code has >=
CandidateRunStrict(t) == (t \div 24) * 24 + (IF t % 24 > CycleHours THEN CycleHours ELSE 0)

\* h = 12 if now.hour >= 12 else 0; run = now.replace(hour=h, minute=0, ...)
CandidateRun(t) == (t \div 24) * 24 + (IF t % 24 >= CycleHours THEN CycleHours ELSE 0)

\* find_best_run, given what the one HEAD probe did
FindBestRun(t, probe) ==
    IF probe = "200" THEN CandidateRun(t) ELSE CandidateRun(t) - CycleHours

\* run_dt = strptime(args.run) if args.run else find_best_run()
SelectRun ==
    /\ pc = "select_run"
    /\ \/ /\ argRun # NoRun
          /\ run_dt' = argRun
          /\ UNCHANGED << probes, probeResult >>
       \/ /\ argRun = NoRun
          /\ \E probe \in {"200", "other", "error"} :
                /\ probeResult' = probe
                /\ run_dt' = FindBestRun(now, probe)
          /\ probes' = probes + 1
    /\ pc' = "hours"
    /\ UNCHANGED << variant, argStart, argEnd, argStep, argRun, now, marineOutcome,
                    fh, last_date, uf, vf, tf, got, files, nextFile, pending, error,
                    failedFh, fetched, ts, out, thermal, marine, grid >>

\* hours = range(args.start, args.end+1, args.step), then the table header;
\* range() raises ValueError for a step of 0
TableHeader ==
    /\ pc = "hours"
    /\ IF argStep = 0
       THEN /\ pc' = "aborted"
            /\ error' = "ValueError"
            /\ UNCHANGED << out, fh, last_date >>
       ELSE /\ pc' = "loop"
            /\ out' = out \o << Plain("table_header"), Plain("table_rule") >>
            /\ fh' = argStart
            /\ last_date' = NoDate
            /\ UNCHANGED error
    /\ UNCHANGED << variant, argStart, argEnd, argStep, argRun, now, run_dt, probes,
                    probeResult, marineOutcome, uf, vf, tf, got, files, nextFile,
                    pending, failedFh, fetched, ts, thermal, marine, grid >>

\* whether h is still produced by range(start, end+1, step)
InRange(h) == IF argStep > 0 THEN h < argEnd + 1 ELSE h > argEnd + 1

\* OutsideWindow with a fault: <= where the code has <
OutsideWindowOffByOne(hr) == hr <= FirstLocalHour \/ hr > LastLocalHour

\* if hr < 5 or hr > 20: continue
OutsideWindow(hr) == hr < FirstLocalHour \/ hr > LastLocalHour

\* NeedsDayHeader with a fault: a header for the first row only
NeedsDayHeaderFirstOnly(date, last) == last = NoDate

\* if loc.date() != last_date
NeedsDayHeader(date, last) == date # last

\* the loop is exhausted
LoopExit ==
    /\ pc = "loop"
    /\ ~InRange(fh)
    /\ pc' = "done"
    /\ UNCHANGED << variant, argStart, argEnd, argStep, argRun, now, run_dt, probes,
                    probeResult, marineOutcome, fh, last_date, uf, vf, tf, got, files,
                    nextFile, pending, error, failedFh, fetched, ts, out,
                    thermal, marine, grid >>

\* an hour outside 05:00..20:00 local time
SkipHour ==
    /\ pc = "loop"
    /\ InRange(fh)
    /\ OutsideWindow(LocalHour(ValidUtc(run_dt, fh)))
    /\ fh' = fh + argStep
    /\ UNCHANGED << variant, pc, argStart, argEnd, argStep, argRun, now, run_dt, probes,
                    probeResult, marineOutcome, last_date, uf, vf, tf, got, files,
                    nextFile, pending, error, failedFh, fetched, ts, out,
                    thermal, marine, grid >>

\* an hour inside the window: the day header when the date changes, and the
\* time label, not yet emphasised (ts = ts_plain.ljust(W_TIME))
BeginHour ==
    /\ pc = "loop"
    /\ InRange(fh)
    /\ ~OutsideWindow(LocalHour(ValidUtc(run_dt, fh)))
    /\ LET date == LocalDate(ValidUtc(run_dt, fh))
       IN IF NeedsDayHeader(date, last_date)
          THEN /\ out' = out
                        \o (IF last_date # NoDate THEN << Plain("blank") >> ELSE << >>)
                        \o << Line("day_header", NoHour, date, 0 - 1, << >>) >>
               /\ last_date' = date
          ELSE UNCHANGED << out, last_date >>
    /\ ts' = "none"
    /\ pc' = "dl_u"
    /\ got' = << >>
    /\ UNCHANGED << variant, argStart, argEnd, argStep, argRun, now, run_dt, probes,
                    probeResult, marineOutcome, fh, uf, vf, tf, files, nextFile,
                    pending, error, failedFh, fetched, thermal, marine, grid >>

NextDownload(p) == IF p = "dl_u" THEN "dl_v" ELSE IF p = "dl_v" THEN "dl_t" ELSE "extract"

\* whether download() has created its temporary file when it leaves
CreatesFile(o) == o \in {"ok", "midstream"}

\* download(url), one of the three of an hour.  Variant 1 binds uf, vf, tf
\* one by one inside the try; variant 2 builds the tuple outside the try and
\* binds the three names when all three calls have returned.
Download ==
    /\ pc \in {"dl_u", "dl_v", "dl_t"}
    /\ \E o \in DownloadOutcomes :
          /\ fetched' = fetched \cup {fh}
          /\ IF CreatesFile(o)
             THEN /\ files' = files \cup {nextFile}
                  /\ nextFile' = nextFile + 1
             ELSE UNCHANGED << files, nextFile >>
          /\ IF o = "ok"
             THEN /\ pc' = NextDownload(pc)
                  /\ got' = Append(got, nextFile)
                  /\ IF variant = 1
                     THEN /\ uf' = IF pc = "dl_u" THEN nextFile ELSE uf
                          /\ vf' = IF pc = "dl_v" THEN nextFile ELSE vf
                          /\ tf' = IF pc = "dl_t" THEN nextFile ELSE tf
                     ELSE IF pc = "dl_t"
                          THEN /\ uf' = got[1]
                               /\ vf' = got[2]
                               /\ tf' = nextFile
                          ELSE UNCHANGED << uf, vf, tf >>
                  /\ UNCHANGED << pending, error, failedFh >>
             ELSE /\ failedFh' = fh
                  /\ IF variant = 1
                     THEN /\ pending' = "FetchError"
                          /\ pc' = "finally"
                          /\ UNCHANGED error
                     ELSE /\ error' = "FetchError"
                          /\ pc' = "aborted"
                          /\ UNCHANGED pending
                  /\ UNCHANGED << uf, vf, tf, got >>
    /\ UNCHANGED << variant, argStart, argEnd, argStep, argRun, now, run_dt, probes,
                    probeResult, marineOutcome, fh, last_date, ts, out,
                    thermal, marine, grid >>

\* u, v = extract_wind(uf, vf); temps = extract_temps(tf); then the emphasis
\* of the time label is decided from temps (after the finally block)
Extract ==
    /\ pc = "extract"
    /\ \E o \in ExtractOutcomes, temps \in ThermalSamples :
          /\ o = "ok" \/ temps = CHOOSE x \in ThermalSamples : TRUE
          /\ IF o = "ok"
             THEN /\ ts' = TimeEmphasis(variant, temps)
                  /\ pending' = "none"
             ELSE /\ pending' = "ExtractError"
                  /\ UNCHANGED ts
    /\ pc' = "finally"
    /\ UNCHANGED << variant, argStart, argEnd, argStep, argRun, now, run_dt, probes,
                    probeResult, marineOutcome, fh, last_date, uf, vf, tf, got, files,
                    nextFile, error, failedFh, fetched, out, thermal, marine, grid >>

\* the finally block.  Variant 1: for f in (uf, vf, tf): if exists: remove;
\* building the tuple raises UnboundLocalError when a name was never bound.
\* Variant 2: for tmpf in (uf, vf, tf): os.remove(tmpf).
Finally ==
    /\ pc = "finally"
    /\ IF variant = 1 /\ Unbound \in {uf, vf, tf}
       THEN /\ error' = "UnboundLocalError"
            /\ pc' = "aborted"
            /\ UNCHANGED files
       ELSE IF variant = 2 /\ ~({uf, vf, tf} \subseteq files)
       THEN /\ error' = "FileNotFoundError"
            /\ pc' = "aborted"
            /\ UNCHANGED files
       ELSE /\ files' = files \ {uf, vf, tf}
            /\ IF pending # "none"
               THEN /\ error' = pending
                    /\ pc' = "aborted"
               ELSE /\ pc' = "row"
                    /\ UNCHANGED error
    /\ pending' = "none"
    /\ UNCHANGED << variant, argStart, argEnd, argStep, argRun, now, run_dt, probes,
                    probeResult, marineOutcome, fh, last_date, uf, vf, tf, got,
                    nextFile, failedFh, fetched, ts, out, thermal, marine, grid >>

\* print(row); the rule after the 20:00 row; on to the next hour.  A printed
\* row is recorded by its forecast hour and local time; the emphasis of its
\* label stays in ts
PrintRow ==
    /\ pc = "row"
    /\ LET t == ValidUtc(run_dt, fh)
       IN out' = out \o << Line("row", fh, LocalDate(t), LocalHour(t), << >>) >>
                     \o (IF LocalHour(t) = LastLocalHour
                         THEN << Plain("table_rule") >> ELSE << >>)
    /\ fh' = fh + argStep
    /\ pc' = "loop"
    /\ UNCHANGED << variant, argStart, argEnd, argStep, argRun, now, run_dt, probes,
                    probeResult, marineOutcome, last_date, uf, vf, tf, got, files,
                    nextFile, pending, error, failedFh, fetched, ts, thermal, marine, grid >>

\* values of the variables a specification does not use
IdleThermal == [phase |-> "idle"]
IdleMarine == [phase |-> "idle"]
IdleGrid == [phase |-> "idle"]

Init ==
    /\ variant \in {1, 2}
    /\ pc = IF variant = 2 THEN "marine" ELSE "select_run"
    /\ argStart \in StartSet
    /\ argEnd \in EndSet
    /\ argStep \in StepSet
    /\ \/ /\ argRun = NoRun
          /\ now \in NowSet
       \/ /\ argRun \in RunArgSet
          /\ now = CHOOSE t \in NowSet : TRUE
    /\ run_dt = NoRun
    /\ probes = 0
    /\ probeResult = "none"
    /\ marineOutcome = "none"
    /\ fh = NoHour
    /\ last_date = NoDate
    /\ uf = Unbound
    /\ vf = Unbound
    /\ tf = Unbound
    /\ got = << >>
    /\ files = {}
    /\ nextFile = 1
    /\ pending = "none"
    /\ error = "none"
    /\ failedFh = NoHour
    /\ fetched = {}
    /\ ts = "none"
    /\ out = << >>
    /\ thermal = IdleThermal
    /\ marine = IdleMarine
    /\ grid = IdleGrid

Next ==
    \/ DisplayMarine
    \/ SelectRun
    \/ TableHeader
    \/ LoopExit
    \/ SkipHour
    \/ BeginHour
    \/ Download
    \/ Extract
    \/ Finally
    \/ PrintRow

Spec == Init /\ [][Next]_vars

\* main runs on: every step that can be taken is taken
FairSpec == Init /\ [][Next]_vars /\ WF_vars(Next)

(***************************************************************************)
(* The pure parts on bounded inputs                                       *)
(***************************************************************************)
\* largest step between the temperatures of two neighbouring points
MaxTempStep == 2
\* longest forecast text, in tokens
MaxTextLen == 5
\* largest grid, in cells
MaxCells == 5

\* main is not running
MainIdle ==
    /\ variant = 2
    /\ pc = "idle"
    /\ argStart = DefaultStart
    /\ argEnd = DefaultEnd
    /\ argStep = DefaultStep
    /\ argRun = NoRun
    /\ now = 0
    /\ run_dt = NoRun
    /\ probes = 0
    /\ probeResult = "none"
    /\ marineOutcome = "none"
    /\ fh = NoHour
    /\ last_date = NoDate
    /\ uf = Unbound
    /\ vf = Unbound
    /\ tf = Unbound
    /\ got = << >>
    /\ files = {}
    /\ nextFile = 1
    /\ pending = "none"
    /\ error = "none"
    /\ failedFh = NoHour
    /\ fetched = {}
    /\ ts = "none"
    /\ out = << >>

RECURSIVE SumTo(_, _)
SumTo(d, n) == IF n = 0 THEN 0 ELSE d[n] + SumTo(d, n - 1)

\* the temperature list whose neighbouring differences are d
TempsOf(d) == [i \in 1..NumLocs |-> SumTo(d, i - 1)]

ThermalInit ==
    /\ MainIdle
    /\ \E v \in {1, 2}, d \in [1..(NumLocs - 1) -> (0 - MaxTempStep)..MaxTempStep] :
          thermal = [phase |-> "input", v |-> v, temps |-> TempsOf(d), em |-> "none"]
    /\ marine = IdleMarine
    /\ grid = IdleGrid

\* the emphasis main decides for one hour's temperatures
Classify ==
    /\ thermal.phase = "input"
    /\ thermal' = [thermal EXCEPT !.phase = "done",
                                  !.em = TimeEmphasis(thermal.v, thermal.temps)]
    /\ UNCHANGED << mainVars, marine, grid >>

ThermalNext == Classify

SpecThermal == ThermalInit /\ [][ThermalNext]_vars

Texts == UNION {[1..n -> Tokens] : n \in 0..MaxTextLen}

MarineTextInit ==
    /\ MainIdle
    /\ \E t \in Texts : marine = [phase |-> "input", text |-> t, shown |-> << >>]
    /\ thermal = IdleThermal
    /\ grid = IdleGrid

\* the body of display_marine_forecasts' loop for one entry
HighlightEntry ==
    /\ marine.phase = "input"
    /\ marine' = [marine EXCEPT !.phase = "done", !.shown = HighlightText(marine.text)]
    /\ UNCHANGED << mainVars, thermal, grid >>

MarineTextNext == HighlightEntry

SpecMarineText == MarineTextInit /\ [][MarineTextNext]_vars

\* latitudes and longitudes of grid cells, in grid units
Coords == {0, 1}
Shapes == {sh \in (1..MaxCells) \X (1..MaxCells) : sh[1] * sh[2] <= MaxCells}
Arrays(nrows, ncols, S) == [0..(nrows - 1) -> [0..(ncols - 1) -> S]]
\* two fields with a different value in every cell (hundredths of a unit)
RisingField(nrows, ncols) ==
    [iy \in 0..(nrows - 1) |-> [ix \in 0..(ncols - 1) |-> 27000 + 10 * (iy * ncols + ix)]]
FallingField(nrows, ncols) ==
    [iy \in 0..(nrows - 1) |-> [ix \in 0..(ncols - 1) |-> 28000 - 10 * (iy * ncols + ix)]]

GridInit ==
    /\ MainIdle
    /\ \E sh \in Shapes :
         \E lats \in Arrays(sh[1], sh[2], Coords), lons \in Arrays(sh[1], sh[2], Coords),
            rising \in BOOLEAN :
            grid = [phase |-> "input", nrows |-> sh[1], ncols |-> sh[2],
                    lats |-> lats, lons |-> lons,
                    vals |-> IF rising THEN RisingField(sh[1], sh[2])
                                       ELSE FallingField(sh[1], sh[2]),
                    vvals |-> IF rising THEN FallingField(sh[1], sh[2])
                                        ELSE RisingField(sh[1], sh[2]),
                    temps |-> << >>, wind |-> << >>]
    /\ thermal = IdleThermal
    /\ marine = IdleMarine

GridExtractTemps ==
    /\ grid.phase = "input"
    /\ grid' = [grid EXCEPT !.phase = "temps", !.temps = ExtractTemps(grid)]
    /\ UNCHANGED << mainVars, thermal, marine >>

GridExtractWind ==
    /\ grid.phase = "input"
    /\ grid' = [grid EXCEPT !.phase = "wind", !.wind = ExtractWind(grid)]
    /\ UNCHANGED << mainVars, thermal, marine >>

GridNext ==
    \/ GridExtractTemps
    \/ GridExtractWind

SpecGrid == GridInit /\ [][GridNext]_vars

(***************************************************************************)
(* Claims                                                                 *)
(***************************************************************************)
RowIndexes == {i \in DOMAIN out : out[i].k = "row"}
HeaderIndexes == {i \in DOMAIN out : out[i].k = "day_header"}
\* the row printed last before line i (0 when there is none)
PrevRow(i) ==
    LET before == {j \in RowIndexes : j < i}
    IN IF before = {} THEN 0 ELSE CHOOSE j \in before : \A k \in before : k <= j
\* local clock-hour of forecast hour h of the selected run
ClockHour(h) == LocalHour(ValidUtc(run_dt, h))
StepSize == IF argStep < 0 THEN 0 - argStep ELSE argStep

\* C1: when a step of the per-hour loop has ended (main is back at the head
\* of the loop, has finished, or has been left by an exception), no temporary
\* file created by download() exists any more.
C1_TempFilesReleased ==
    pc \in {"loop", "done", "aborted"} => files = {}

\* C2: find_best_run probes once; it returns today 12:00 UTC (00:00 UTC when
\* now.hour < 12) if the probe answered 200 and that time minus 12 hours if
\* the probe answered anything else or raised, with no second probe; with
\* --run given it does not probe at all.
C2_FindBestRun ==
    /\ probeResult = "none" => probes = 0
    /\ probeResult # "none" =>
          /\ probes = 1
          /\ LET candidate == (now \div 24) * 24 + (IF now % 24 >= 12 THEN 12 ELSE 0)
             IN run_dt = IF probeResult = "200" THEN candidate ELSE candidate - 12

\* C2 witness: at exactly 12:00 UTC the probe raised, the run is today 00:00
\* UTC and main finished the table with it.
C2_Witness ==
    /\ pc = "done"
    /\ probeResult = "error"
    /\ now % 24 = 12
    /\ probes = 1
    /\ run_dt = (now \div 24) * 24

TableHeaderPrinted == \E i \in DOMAIN out : out[i].k = "table_header"

\* C3: whatever the marine feed does, display_marine_forecasts returns and
\* main prints the table header (unless --step 0 makes range() raise, or the
\* script has no marine section).
C3_MarineNeverBlocksTable ==
    <>(variant = 1 \/ argStep = 0 \/ TableHeaderPrinted)

\* C4: once a download for forecast hour h has failed, main is left by that
\* fetch error: the loop never moves past h, no row is printed for h, and the
\* exception that leaves main is the fetch failure.
C4_FetchErrorSurfaces ==
    failedFh # NoHour =>
        /\ fh = failedFh
        /\ pc \in {"finally", "aborted"}
        /\ pc = "aborted" => error = "FetchError"
        /\ \A i \in RowIndexes : out[i].fh # failedFh

\* the forecast hours start..end inclusive by step, as the claim reads them
ClaimedHours ==
    IF argStep = 0 THEN {}
    ELSE {h \in argStart..argEnd : (h - argStart) % StepSize = 0}
\* the forecast hours of range(start, end+1, step)
RangeHours ==
    IF argStep > 0 THEN ClaimedHours
    ELSE IF argStep = 0 THEN {}
    ELSE {h \in (argEnd + 2)..argStart : (argStart - h) % StepSize = 0}

\* C6 as claimed: rows and fetches only for hours of start..end by step whose
\* local clock-hour is 5..20, rows in increasing forecast-hour order.
C6_RowsInWindowAscending ==
    LET rows == RowIndexes
        hours == ClaimedHours
    IN /\ \A i \in rows : out[i].fh \in hours /\ ClockHour(out[i].fh) \in 5..20
       /\ \A h \in fetched : h \in hours /\ ClockHour(h) \in 5..20
       /\ \A i, j \in rows : i < j => out[i].fh < out[j].fh

\* C6 amended: rows and fetches only for hours of range(start, end+1, step)
\* whose local clock-hour is 5..20, at most one row per hour, in the order of
\* the range: increasing for a step >= 1, decreasing for a negative step; a
\* row's printed local time is that of its forecast hour; when the loop has
\* ended, every hour of the range inside the window has its row.
C6_RowsInWindowRangeOrder ==
    LET rows == RowIndexes
        hours == RangeHours
    IN /\ \A i \in rows :
             /\ out[i].fh \in hours
             /\ ClockHour(out[i].fh) \in 5..20
             /\ out[i].hr = ClockHour(out[i].fh)
       /\ \A h \in fetched : h \in hours /\ ClockHour(h) \in 5..20
       /\ \A i, j \in rows :
             i < j => IF argStep > 0 THEN out[i].fh < out[j].fh
                                     ELSE out[i].fh > out[j].fh
       /\ pc = "done" =>
             \A h \in hours :
                 ClockHour(h) \in 5..20 <=> \E i \in rows : out[i].fh = h

\* C6 witness: a finished table with an increasing step that has a 05:00 row,
\* a 20:00 row and an hour of the range that was skipped.
C6_Witness ==
    /\ pc = "done"
    /\ argStep > 0
    /\ \E i, j \in RowIndexes : out[i].hr = 5 /\ out[j].hr = 20
    /\ \E h \in RangeHours : h \notin fetched /\ ClockHour(h) > 20
    /\ \E h \in RangeHours : h \notin fetched /\ ClockHour(h) < 5

\* C10: a day header stands between a row and the row before it exactly when
\* their local dates differ (or there is no row before it), and it is the
\* header of the row's own date; no date has two headers.
C10_DayHeaders ==
    LET rows == RowIndexes
        heads == HeaderIndexes
    IN /\ \A i \in rows :
             LET prev == PrevRow(i)
                 between == {j \in heads : prev < j /\ j < i}
             IN /\ between # {} <=> (prev = 0 \/ out[prev].date # out[i].date)
                /\ \A j \in between : out[j].date = out[i].date
                /\ \E j \in heads : j < i /\ out[j].date = out[i].date
       /\ \A i, j \in heads : i # j => out[i].date # out[j].date

\* C10 witness: a finished table with rows of two dates, two of them on the
\* same date one after the other.
C10_Witness ==
    /\ pc = "done"
    /\ Cardinality(HeaderIndexes) >= 2
    /\ \E i \in RowIndexes :
          /\ PrevRow(i) # 0
          /\ out[PrevRow(i)].date = out[i].date
    /\ \E i \in RowIndexes :
          /\ PrevRow(i) # 0
          /\ out[PrevRow(i)].date # out[i].date

FullAscending(t) == \A i \in 1..6 : t[i] < t[i + 1]
FourPointAscending(t) == t[1] < t[2] /\ t[2] < t[3] /\ t[3] < t[5]

\* C5 as claimed: green iff all seven ascend, else yellow iff Furry < Brit <
\* 7mesh < Whis, else no emphasis.
C5_DualEmphasis ==
    thermal.phase = "done" =>
        thermal.em = IF FullAscending(thermal.temps) THEN "green"
                     ELSE IF FourPointAscending(thermal.temps) THEN "yellow"
                     ELSE "none"

\* C5 amended: fetch_hrdps_squamish_insecure2.py decides as claimed;
\* fetch_hrdps_squamish_insecure.py has no green category and gives yellow
\* iff Furry < Brit < 7mesh < Whis, whether or not all seven ascend.
C5_EmphasisByScript ==
    thermal.phase = "done" =>
        IF thermal.v = 2
        THEN thermal.em = IF FullAscending(thermal.temps) THEN "green"
                          ELSE IF FourPointAscending(thermal.temps) THEN "yellow"
                          ELSE "none"
        ELSE thermal.em = IF FourPointAscending(thermal.temps) THEN "yellow" ELSE "none"

\* C5 witness: a list ascending throughout, classified green by the second script.
C5_Witness ==
    /\ thermal.phase = "done"
    /\ thermal.v = 2
    /\ FullAscending(thermal.temps)
    /\ thermal.em = "green"

\* C9: two equal neighbours in the four-point list Furry, Brit, 7mesh, Whis
\* leave the label without emphasis (neither green nor yellow); two equal
\* neighbours anywhere in the seven-point list rule out green.
C9_EqualBreaksChain ==
    thermal.phase = "done" =>
        LET t == thermal.temps
        IN /\ (t[1] = t[2] \/ t[2] = t[3] \/ t[3] = t[5]) => thermal.em = "none"
           /\ (\E i \in 1..6 : t[i] = t[i + 1]) => thermal.em # "green"

\* C9 witness: Furry < Brit < 7mesh = Whis with Cheak in between, no emphasis.
C9_Witness ==
    /\ thermal.phase = "done"
    /\ thermal.temps[1] < thermal.temps[2]
    /\ thermal.temps[2] < thermal.temps[3]
    /\ thermal.temps[3] = thermal.temps[5]
    /\ thermal.temps[4] # thermal.temps[3]
    /\ thermal.em = "none"

\* the text with its markers removed
Unmarked(t) == SelectSeq(t, LAMBDA x : x \notin Markers)
\* an opening marker is closed by the next marker, and every RESET closes one
WellFormed(t) ==
    \A i \in DOMAIN t :
        /\ t[i] \in OpenMarkers =>
              \E j \in (i + 1)..Len(t) :
                  /\ t[j] = "RESET"
                  /\ \A k \in (i + 1)..(j - 1) : t[k] \notin Markers
        /\ t[i] = "RESET" =>
              \E j \in 1..(i - 1) :
                  /\ t[j] \in OpenMarkers
                  /\ \A k \in (j + 1)..(i - 1) : t[k] \notin Markers
\* the tokens from opening marker i to the next RESET
SpanAt(t, i) ==
    LET close == CHOOSE j \in (i + 1)..Len(t) :
                    t[j] = "RESET" /\ \A k \in (i + 1)..(j - 1) : t[k] # "RESET"
    IN SubSeq(t, i + 1, close - 1)
\* s is a match of  start.*?stop
IsMatch(s, starts, stop) ==
    /\ Len(s) >= 2
    /\ s[1] \in starts
    /\ s[Len(s)] = stop
    /\ \A k \in 2..(Len(s) - 1) : s[k] \notin (Markers \cup {"nl", stop})
SpanMatchesCategory(t, i) ==
    IF t[i] = "RED" THEN SpanAt(t, i) = << "WARN" >>
    ELSE IF t[i] = "GREEN" THEN IsMatch(SpanAt(t, i), {"inflow", "INFLOW"}, "north")
    ELSE IsMatch(SpanAt(t, i), {"outflow"}, "south")

\* C7: in the text display_marine_forecasts prints, every opening marker is
\* closed before another opens, every marked span is a match of its own
\* category's pattern, and the text without its markers is the original.
C7_MarkersWellFormed ==
    marine.phase = "done" =>
        /\ WellFormed(marine.shown)
        /\ \A i \in DOMAIN marine.shown :
              marine.shown[i] \in OpenMarkers => SpanMatchesCategory(marine.shown, i)
        /\ Unmarked(marine.shown) = marine.text

\* squared distance of cell (iy, ix) to point p
CellDist(g, iy, ix, p) ==
    (g.lats[iy][ix] - p[1]) * (g.lats[iy][ix] - p[1])
    + (g.lons[iy][ix] - p[2]) * (g.lons[iy][ix] - p[2])
Cells(g) == (0..(g.nrows - 1)) \X (0..(g.ncols - 1))
\* c is a nearest cell to p and no cell before it in row-major order is as near
FirstNearest(g, c, p) ==
    \A o \in Cells(g) :
        /\ CellDist(g, c[1], c[2], p) <= CellDist(g, o[1], o[2], p)
        /\ (o[1] < c[1] \/ (o[1] = c[1] /\ o[2] < c[2])) =>
              CellDist(g, c[1], c[2], p) < CellDist(g, o[1], o[2], p)

\* C8: every value extract_temps returns for a point, and both values
\* extract_wind returns, are the field's values at the first cell in
\* row-major order among the cells nearest to the point.
C8_NearestFirstRowMajor ==
    /\ grid.phase = "temps" =>
          \A l \in 1..7 :
              \E c \in Cells(grid) :
                  /\ FirstNearest(grid, c, GridLocs[l])
                  /\ grid.temps[l] = grid.vals[c[1]][c[2]] - 27315
    /\ grid.phase = "wind" =>
          \E c \in Cells(grid) :
              /\ FirstNearest(grid, c, GridLocs[3])
              /\ grid.wind = << grid.vals[c[1]][c[2]], grid.vvals[c[1]][c[2]] >>

\* C8 witness: a grid of two rows and more than one column in which two cells
\* of different rows and columns are equally near to the 7mesh point and
\* nearer than the first cell, sampled by extract_temps.
C8_Witness ==
    /\ grid.phase = "temps"
    /\ grid.nrows >= 2
    /\ grid.ncols >= 2
    /\ \E c, o \in Cells(grid) :
          /\ c[1] < o[1]
          /\ c[2] > o[2]
          /\ FirstNearest(grid, c, GridLocs[3])
          /\ CellDist(grid, c[1], c[2], GridLocs[3]) = CellDist(grid, o[1], o[2], GridLocs[3])
          /\ CellDist(grid, 0, 0, GridLocs[3]) > CellDist(grid, c[1], c[2], GridLocs[3])
          /\ grid.temps[3] = grid.vals[c[1]][c[2]] - 27315

====
